---- MODULE Spec2Model ----
(***************************************************************************)
(* A model of wytools/rlog: the rotating file writer (rotation.Logger,     *)
(* src/rotation/rotate.go, the version of lines 254-540) and the text      *)
(* handler that writes through it (DefaultHandler, src/unnamed/part_001).  *)
(*                                                                         *)
(* The file system is part of the state: `disk` maps the name of every     *)
(* existing log file to its content, `handles` is the set of file handles  *)
(* the writer has opened and not closed, and `stdoutOpen`/`stdoutData` are *)
(* the process's standard output.  A file's content is the sequence of the *)
(* payloads appended to it; a payload [w |-> k, n |-> len] is the one of   *)
(* the k-th Write (w = 0: bytes left by an earlier run of the program).    *)
(*                                                                         *)
(* Time is counted in ticks, TicksPerDay of them to a day.  One handler    *)
(* call reads one clock value (the code's successive time.Now() calls are  *)
(* taken to return the same instant), and a calendar day is TicksPerDay    *)
(* ticks (no daylight-saving shift).                                       *)
(***************************************************************************)
EXTENDS Integers, Sequences, FiniteSets, TLC

VARIABLES
    \* rotation.Logger
    rType,            \* "daily" | "size"
    rHour,            \* the set time of a daily logger (rHour:rMinute), in ticks after midnight
    currentFileTime,  \* the cutover of the open period
    rMaxSize,         \* bytes per file
    rSize,            \* the byte counter
    rMaxNum,          \* number of slots
    fnRotateIndex,    \* current slot
    fnRotateUsed,     \* slot -> BOOLEAN
    file,             \* the current writer: a handle
    bLock,            \* write with a lock or not
    \* the environment
    disk,             \* file name -> content, for the files that exist
    disk0,            \* the files found at construction
    handles,          \* open handles (ids) created by the writer
    nOpens,           \* handles created so far
    stdoutOpen,       \* is the process's standard output still open
    stdoutData,       \* what was written to standard output
    now,              \* the clock
    \* history
    nWrites,          \* Write calls so far
    nFails,           \* injected file-system failures so far
    closed,           \* Close has been called
    last,             \* what the last call did
    \* concurrent callers
    pc,               \* caller -> where it is in Write or Close
    mutex,            \* the Logger's sync.Mutex: 0 (free) or the caller holding it
    loc,              \* caller -> the local variables of its call
    \* DefaultHandler
    hs,               \* the handlers made so far: hs[1] by NewDefaultHandler, the others derived
    heap,             \* the backing arrays of the handlers' slices
    born,             \* handler -> the handler it was derived from, and what it held then
    hlast,            \* what the last Handle call did
    enc,              \* the last call of the encoder on its own: what it was given and gave
    hcall             \* caller -> the Handle call it is in: the handler, and how far it is

wvars == <<rType, rHour, currentFileTime, rMaxSize, rSize, rMaxNum, fnRotateIndex,
           fnRotateUsed, file, bLock, disk, disk0, handles, nOpens, stdoutOpen,
           stdoutData, now, nWrites, nFails, closed, last>>

cvars == <<pc, mutex, loc>>

hvars == <<hs, heap, born, hlast, enc, hcall>>

vars == <<wvars, cvars, hvars>>

-----------------------------------------------------------------------------
\* Bounds of the model.

MaxWrites == 4     \* Write calls in one behaviour
MaxFails == 2      \* injected file-system failures in one behaviour
TicksPerDay == 2   \* clock resolution
MaxDays == 2       \* the clock stops after this many days
NProcs == 2        \* concurrent callers
MaxConcWrites == 2 \* Write calls in one behaviour of concurrent callers
MaxConcFails == 1  \* injected failures in one behaviour of concurrent callers

-----------------------------------------------------------------------------
\* Handles.

NilFile == [k |-> "nil", name |-> -1, h |-> 0]
Stdout == [k |-> "stdout", name |-> -1, h |-> 0]
FileHandle(name, h) == [k |-> "file", name |-> name, h |-> h]

RECURSIVE FileSize(_)
FileSize(data) == IF data = << >> THEN 0 ELSE Head(data).n + FileSize(Tail(data))

Sys(op, name, ok) == [op |-> op, name |-> name, ok |-> ok]

NoFail == [at |-> 0, kind |-> "none"]

\* F applied to the value of x (x is evaluated once).
Bind(x, F(_)) == CHOOSE r \in {F(v) : v \in {x}} : TRUE

\* The Logger and its environment as one record, threaded through a call.
Cur == [rSize |-> rSize, fnRotateIndex |-> fnRotateIndex, fnRotateUsed |-> fnRotateUsed,
        currentFileTime |-> currentFileTime, file |-> file, disk |-> disk,
        handles |-> handles, nOpens |-> nOpens, stdoutOpen |-> stdoutOpen,
        stdoutData |-> stdoutData,
        logFile |-> NilFile, err |-> FALSE, rotated |-> FALSE, n |-> 0, werr |-> FALSE,
        cerr |-> FALSE, ops |-> << >>]

-----------------------------------------------------------------------------
\* os.Remove(filename): fails on a missing file, or when the environment says so.
osRemove(s, name, fails) ==
    IF fails \/ name \notin DOMAIN s.disk
    THEN [s EXCEPT !.err = TRUE, !.ops = Append(@, Sys("remove", name, FALSE))]
    ELSE [s EXCEPT !.disk = [f \in DOMAIN s.disk \ {name} |-> s.disk[f]],
                   !.ops = Append(@, Sys("remove", name, TRUE))]

\* os.OpenFile(filename, O_WRONLY|O_CREATE|O_APPEND): the file is created when
\* absent and kept as it is when present.
osOpenFile(s, name, fails) ==
    IF fails
    THEN [s EXCEPT !.err = TRUE, !.logFile = NilFile,
                   !.ops = Append(@, Sys("open", name, FALSE))]
    ELSE [s EXCEPT !.disk = IF name \in DOMAIN s.disk THEN s.disk
                            ELSE [f \in DOMAIN s.disk \cup {name} |->
                                    IF f = name THEN << >> ELSE s.disk[f]],
                   !.handles = @ \cup {s.nOpens + 1},
                   !.nOpens = @ + 1,
                   !.logFile = FileHandle(name, s.nOpens + 1),
                   !.ops = Append(@, Sys("open", name, TRUE))]

\* (*os.File).Close on the current writer: nil and an already closed file
\* return an error and change nothing.
fileClose(s) ==
    CASE s.file.k = "nil" -> [s EXCEPT !.ops = Append(@, Sys("close", -1, FALSE))]
      [] s.file.k = "stdout" ->
            [s EXCEPT !.stdoutOpen = FALSE,
                      !.ops = Append(@, Sys("closeStdout", -1, s.stdoutOpen))]
      [] OTHER -> [s EXCEPT !.handles = @ \ {s.file.h},
                            !.ops = Append(@, Sys("close", s.file.name, s.file.h \in s.handles))]

\* (*os.File).Write(p) on the current writer.
fileWrite(s, p) ==
    CASE s.file.k = "nil" -> [s EXCEPT !.n = 0, !.werr = TRUE]
      [] s.file.k = "stdout" ->
            IF s.stdoutOpen
            THEN [s EXCEPT !.stdoutData = Append(@, p), !.n = p.n, !.werr = FALSE,
                           !.ops = Append(@, Sys("writeStdout", -1, TRUE))]
            ELSE [s EXCEPT !.n = 0, !.werr = TRUE,
                           !.ops = Append(@, Sys("writeStdout", -1, FALSE))]
      [] OTHER ->
            IF s.file.h \in s.handles /\ s.file.name \in DOMAIN s.disk
            THEN [s EXCEPT !.disk[s.file.name] = Append(@, p), !.n = p.n, !.werr = FALSE,
                           !.ops = Append(@, Sys("write", s.file.name, TRUE))]
            ELSE [s EXCEPT !.n = 0, !.werr = TRUE,
                           !.ops = Append(@, Sys("write", s.file.name, FALSE))]

-----------------------------------------------------------------------------
\* openNewDailyFile: fk is the failure the environment injects
\* ("path": getPathFileName fails, "open": os.OpenFile fails).
DailyCutoverToday(t) == (t \div TicksPerDay) * TicksPerDay + rHour

DailyCutover(t) ==
    LET c == (t \div TicksPerDay) * TicksPerDay + rHour
    IN  IF c > t THEN c - TicksPerDay ELSE c

openNewDailyFile(s, fk) ==
    IF fk = "path"
    THEN [s EXCEPT !.err = TRUE, !.logFile = NilFile,
                   !.ops = Append(@, Sys("mkdir", -1, FALSE))]
    ELSE osOpenFile([s EXCEPT !.currentFileTime = DailyCutover(now)], now, fk = "open")

\* openNewSizeFile, one turn of its loop: advance the slot, remove the slot's
\* file if the slot is used, open it, take its size.
\* The slot files named otherwise than by their slots, to contrast with.
fnRotateFromOne(i) == i + 1

\* l.fnRotate[i] = path + fn + strconv.Itoa(i) + suffix: a file is named by its slot
fnRotate(i) == i

removeUsed(s, fails) ==
    IF s.fnRotateUsed[s.fnRotateIndex] THEN osRemove(s, fnRotate(s.fnRotateIndex), fails)
    ELSE s

advanceSlotByTwo(s) == [s EXCEPT !.fnRotateIndex = (@ + 2) % rMaxNum]

advanceSlot(s) == [s EXCEPT !.fnRotateIndex = (@ + 1) % rMaxNum]

statSlot(s, fails) ==
    IF fails
    THEN [s EXCEPT !.err = TRUE, !.logFile = NilFile,
                   !.ops = Append(@, Sys("stat", fnRotate(s.fnRotateIndex), FALSE))]
    ELSE [s EXCEPT !.rSize = FileSize(s.disk[fnRotate(s.fnRotateIndex)]),
                   !.fnRotateUsed[s.fnRotateIndex] = TRUE]

\* one turn of the loop of openNewSizeFile; fk: the operation that fails in it
loopTurn(s, fk) ==
    Bind(removeUsed(advanceSlot(s), fk = "remove"), LAMBDA s1 :
       IF s1.err THEN [s1 EXCEPT !.logFile = NilFile]
       ELSE Bind(osOpenFile(s1, fnRotate(s1.fnRotateIndex), fk = "open"), LAMBDA s2 :
              IF s2.err THEN s2 ELSE statSlot(s2, fk = "stat")))

RECURSIVE openNewSizeFile(_, _, _)
openNewSizeFile(s, plan, turn) ==
    IF s.rSize < rMaxSize THEN s
    ELSE Bind(loopTurn(s, IF plan.at = turn THEN plan.kind ELSE "none"), LAMBDA s3 :
            IF s3.err THEN s3 ELSE openNewSizeFile(s3, plan, turn + 1))

\* rotate: the rotation check, and the switch of the current writer.
needRotateStrict(s) ==
    IF rType = "daily" THEN now - TicksPerDay > s.currentFileTime
    ELSE s.rSize > rMaxSize

needRotateNoRetry(s) ==
    /\ s.file # Stdout
    /\ IF rType = "daily" THEN now - TicksPerDay > s.currentFileTime
       ELSE s.rSize >= rMaxSize

needRotate(s) ==
    IF rType = "daily" THEN now - TicksPerDay > s.currentFileTime
    ELSE s.rSize >= rMaxSize

assignFile(s) == [s EXCEPT !.file = IF s.err THEN Stdout ELSE s.logFile, !.rotated = TRUE]

switchFile(s) == assignFile(fileClose(s))

rotate(s, plan) ==
    IF ~needRotate(s) THEN s
    ELSE IF rType = "daily"
         THEN Bind(openNewDailyFile(s, IF plan.at = 1 THEN plan.kind ELSE "none"),
                   LAMBDA s1 : switchFile(s1))
         ELSE Bind(openNewSizeFile(s, plan, 1), LAMBDA s1 : switchFile(s1))

\* Write, between Lock and Unlock.
addSizeAssign(s) == [s EXCEPT !.rSize = s.n]

addSize(s) == [s EXCEPT !.rSize = @ + s.n]

doWrite(s, p, plan) ==
    Bind(rotate(s, plan), LAMBDA s1 : Bind(fileWrite(s1, p), LAMBDA s2 : addSize(s2)))

\* Close, between Lock and Unlock.
\* Close without its check for nil, to contrast with.
doCloseAlways(s) ==
    Bind(fileClose(s), LAMBDA s1 :
        [s1 EXCEPT !.file = NilFile, !.cerr = ~s1.ops[Len(s1.ops)].ok])

\* cerr: Close returns the error of l.file.Close()
doClose(s) ==
    IF s.file.k = "nil" THEN s
    ELSE Bind(fileClose(s), LAMBDA s1 :
            [s1 EXCEPT !.file = NilFile, !.cerr = ~s1.ops[Len(s1.ops)].ok])

-----------------------------------------------------------------------------
\* DefaultHandler.  A string is a sequence of one-character strings, a []byte
\* likewise.

INFO == <<"I", "N", "F", "O">>
ERROR == <<"E", "R", "R", "O", "R">>
SourceKey == <<"s", "o", "u", "r", "c", "e">>

Digit(d) == <<"0", "1", "2", "3", "4", "5", "6", "7", "8", "9">>[d + 1]

\* strconv.AppendInt(b, i, 10), i >= 0
RECURSIVE AppendInt(_, _)
AppendInt(b, i) ==
    IF i < 10 THEN b \o <<Digit(i)>> ELSE AppendInt(b, i \div 10) \o <<Digit(i % 10)>>

RECURSIVE Zeros(_, _)
Zeros(n, zero) == IF n <= 0 THEN << >> ELSE <<zero>> \o Zeros(n - 1, zero)

\* Buffer.WritePosIntWidth(i, width): i in decimal, left-padded with zeroes to
\* at least width digits.
WritePosIntWidth(b, i, width) ==
    LET d == AppendInt(<< >>, i)
    IN  b \o Zeros(width - Len(d), "0") \o d

\* The characters that are not one-character strings: the byte 0x7F (DEL), and
\* beyond ASCII (utf8.RuneSelf and up) a letter, a space, a format character,
\* the replacement character and a byte that is no valid encoding.
DEL == "0x7F"
Letter == "U+00E9"
NoBreakSpace == "U+00A0"
ZeroWidthSpace == "U+200B"
Replacement == "U+FFFD"
BadByte == "0xFF"

RuneSelfAndUp == {Letter, NoBreakSpace, ZeroWidthSpace, Replacement, BadByte}

\* safeSet: false for the control characters, the double quote and the backslash.
safeSet(c) == c \notin {"\n", "\t", "\"", "\\"}

\* utf8.DecodeRuneInString gives utf8.RuneError
isRuneError(c) == c \in {BadByte, Replacement}

\* unicode.IsSpace
IsSpace(c) == c \in {" ", "\n", "\t", NoBreakSpace}

\* unicode.IsPrint
IsPrint(c) == c \notin {"\n", "\t", DEL, NoBreakSpace, ZeroWidthSpace, BadByte}

\* needsQuoting with the backslash among the characters that ask for quotes, to
\* contrast with.
needsQuotingBackslash(str) ==
    \/ Len(str) = 0
    \/ \E i \in 1 .. Len(str) :
          IF str[i] \notin RuneSelfAndUp
          THEN str[i] = " " \/ str[i] = "=" \/ ~safeSet(str[i])
          ELSE isRuneError(str[i]) \/ IsSpace(str[i]) \/ ~IsPrint(str[i])

needsQuoting(str) ==
    \/ Len(str) = 0
    \/ \E i \in 1 .. Len(str) :
          IF str[i] \notin RuneSelfAndUp
          THEN str[i] # "\\" /\ (str[i] = " " \/ str[i] = "=" \/ ~safeSet(str[i]))
          ELSE isRuneError(str[i]) \/ IsSpace(str[i]) \/ ~IsPrint(str[i])

\* The body of a Go quoted string: control characters, double quote, backslash
\* and what is not printable escaped.
RECURSIVE quoteBody(_)
quoteBody(str) ==
    IF str = << >> THEN << >>
    ELSE (CASE Head(str) = "\n" -> <<"\\", "n">>
            [] Head(str) = "\t" -> <<"\\", "t">>
            [] Head(str) = "\"" -> <<"\\", "\"">>
            [] Head(str) = "\\" -> <<"\\", "\\">>
            [] Head(str) = DEL -> <<"\\", "x", "7", "f">>
            [] Head(str) = BadByte -> <<"\\", "x", "f", "f">>
            [] Head(str) = NoBreakSpace -> <<"\\", "u", "0", "0", "a", "0">>
            [] Head(str) = ZeroWidthSpace -> <<"\\", "u", "2", "0", "0", "b">>
            [] OTHER -> <<Head(str)>>) \o quoteBody(Tail(str))

\* strconv.AppendQuote(b, str)
AppendQuote(b, str) == b \o <<"\"">> \o quoteBody(str) \o <<"\"">>

-----------------------------------------------------------------------------
\* Go slices over the arrays of the heap: arr = 0 is the nil slice.

NilSlice == [arr |-> 0, len |-> 0, cap |-> 0]

Elems(hp, sl) == IF sl.len = 0 THEN << >> ELSE SubSeq(hp[sl.arr], 1, sl.len)

\* slices.Clip(s) = s[:len(s):len(s)]
Clip(sl) == [sl EXCEPT !.cap = sl.len]

\* append(sl, elems...): in place when the capacity suffices, else into a new
\* array of the needed length and spare more (how much is the runtime's choice).
append(hp, sl, elems, spare, zero) ==
    IF elems = << >> THEN [heap |-> hp, slice |-> sl]
    ELSE IF sl.len + Len(elems) <= sl.cap
    THEN [heap |-> [hp EXCEPT ![sl.arr] =
                      SubSeq(@, 1, sl.len) \o elems
                          \o SubSeq(@, sl.len + Len(elems) + 1, sl.cap)],
          slice |-> [sl EXCEPT !.len = @ + Len(elems)]]
    ELSE [heap |-> Append(hp, Elems(hp, sl) \o elems \o Zeros(spare, zero)),
          slice |-> [arr |-> Len(hp) + 1, len |-> sl.len + Len(elems),
                     cap |-> sl.len + Len(elems) + spare]]

-----------------------------------------------------------------------------
\* Attributes and records.

StringValue(str) == [kind |-> "string", s |-> str]
Int64Value(i) == [kind |-> "int", i |-> i]
\* a slog.LogValuer whose LogValue() is v
LogValuerValue(v) == [kind |-> "logvaluer", v |-> v]
\* slog.Any(slog.SourceKey, source(&r)): the *slog.Source of the record
SourceValue(f, l) == [kind |-> "source", file |-> f, line |-> l]

Attr(k, v) == [key |-> k, val |-> v]

\* isEmptyGroup that finds no group empty, to contrast with.
isEmptyGroupNever(v) == FALSE

isEmptyGroup(v) == v.kind = "group" /\ Len(v.attrs) = 0

countEmptyGroups(as) == Cardinality({i \in 1 .. Len(as) : isEmptyGroup(as[i].val)})

\* slog.GroupValue(as...): the empty groups among as are left out.
GroupValue(as) ==
    [kind |-> "group", attrs |-> SelectSeq(as, LAMBDA a : ~isEmptyGroup(a.val))]

\* Value.Resolve(): the value a LogValuer stands for
RECURSIVE Resolve(_)
Resolve(v) == IF v.kind = "logvaluer" THEN Resolve(v.v) ELSE v

ZeroTime == [zero |-> TRUE, year |-> 1, month |-> 1, day |-> 1, hour |-> 0, min |-> 0,
             sec |-> 0, ns |-> 0]

LevelString(l) == IF l = "ERROR" THEN ERROR ELSE INFO

-----------------------------------------------------------------------------
\* NewDefaultHandler, clone and the handleState of one call.

\* replaceAttr: is opts.ReplaceAttr set (to a hook that returns its attribute)
NewDefaultHandler(addSource, replaceAttr) ==
    [opts |-> [AddSource |-> addSource, ReplaceAttr |-> replaceAttr],
     preformattedAttrs |-> NilSlice,
     groupPrefix |-> << >>, groups |-> NilSlice, nOpenGroups |-> 0, mu |-> 1, w |-> 1]

\* clone giving the new handler a mutex of its own, to contrast with.
cloneOwnMutex(h) ==
    [h EXCEPT !.preformattedAttrs = Clip(@), !.groups = Clip(@), !.mu = @ + 1]

\* clone without slices.Clip, to contrast with.
cloneNoClip(h) == h

clone(h) == [h EXCEPT !.preformattedAttrs = Clip(@), !.groups = Clip(@)]

attrSep == <<" ">>

\* s.groups: nil, or the names of the open groups (for ReplaceAttr)
NilGroups == [nil |-> TRUE, names |-> << >>]

\* calls: the calls of the hook so far, each with the groups and the attribute
\* it was given
newHandleState(h, hp, buf, sep) ==
    [buf |-> buf, sep |-> sep, prefix |-> << >>, rep |-> h.opts.ReplaceAttr,
     groups |-> IF h.opts.ReplaceAttr
                THEN [nil |-> FALSE, names |-> SubSeq(Elems(hp, h.groups), 1, h.nOpenGroups)]
                ELSE NilGroups,
     calls |-> << >>]

openGroup(s, name) ==
    [s EXCEPT !.prefix = @ \o name \o <<".">>,
              !.groups = IF @.nil THEN @ ELSE [@ EXCEPT !.names = Append(@, name)]]

closeGroup(s, name) ==
    [s EXCEPT !.prefix = SubSeq(@, 1, Len(@) - Len(name) - 1),
              !.groups = IF @.nil THEN @
                         ELSE [@ EXCEPT !.names = SubSeq(@, 1, Len(@) - 1)]]

RECURSIVE appendAttr(_, _), appendAttrs(_, _), appendResolved(_, _)

RECURSIVE openEach(_, _)
openEach(s, names) ==
    IF names = << >> THEN s ELSE openEach(openGroup(s, Head(names)), Tail(names))

\* openGroups opening every group of h, to contrast with.
openGroupsAll(s, h, hp) ==
    openEach(s, Elems(hp, h.groups))

\* the groups of h that are not in preformattedAttrs yet
openGroups(s, h, hp) ==
    openEach(s, SubSeq(Elems(hp, h.groups), h.nOpenGroups + 1, h.groups.len))

appendString(s, str) ==
    [s EXCEPT !.buf = IF needsQuoting(str) THEN AppendQuote(@, str) ELSE @ \o str]

appendSep(s) == [s EXCEPT !.buf = @ \o s.sep]

appendKey(s, key) ==
    Bind(appendString(appendSep(s), IF Len(s.prefix) > 0 THEN s.prefix \o key ELSE key),
         LAMBDA s1 : [s1 EXCEPT !.buf = @ \o <<"=">>, !.sep = attrSep])

appendTime(s, t) ==
    LET W(b, i, w) == WritePosIntWidth(b, i, w)
        date == W(W(W(s.buf, t.year, 4) \o <<"-">>, t.month, 2) \o <<"-">>, t.day, 2)
        clock == W(W(W(date \o <<"T">>, t.hour, 2) \o <<":">>, t.min, 2) \o <<":">>, t.sec, 2)
    IN  [s EXCEPT !.buf = W(clock \o <<".">>, t.ns \div 1000, 3)]

\* appendTextValue for the kinds of the model
appendValue(s, v) ==
    CASE v.kind = "string" -> appendString(s, v.s)
      [] v.kind = "int" -> [s EXCEPT !.buf = AppendInt(@, v.i)]
      [] v.kind = "time" -> appendTime(s, v.t)

\* rep(gs, a): the hook is called, and returns a
callReplaceAttr(s, a) ==
    [s EXCEPT !.calls = Append(@, [groups |-> s.groups.names, attr |-> a])]

\* appendAttr after its call of the hook
appendResolved(s, a0) ==
    IF a0.key = << >> THEN s
    ELSE LET a == IF a0.val.kind = "source"
                  THEN Attr(a0.key, StringValue(a0.val.file \o <<":">>
                                                  \o AppendInt(<< >>, a0.val.line)))
                  ELSE a0
         IN  IF a.val.kind = "group"
             THEN IF Len(a.val.attrs) > 0
                  THEN Bind(appendAttrs(IF a.key # << >> THEN openGroup(s, a.key) ELSE s,
                                        a.val.attrs),
                            LAMBDA s1 : IF a.key # << >> THEN closeGroup(s1, a.key) ELSE s1)
                  ELSE s
             ELSE Bind(appendKey(s, a.key), LAMBDA s1 : appendValue(s1, a.val))

appendAttr(s, a0) ==
    IF s.rep /\ a0.val.kind # "group"
    THEN Bind(Attr(a0.key, Resolve(a0.val)), LAMBDA a :
            appendResolved(callReplaceAttr(s, a), a))
    ELSE appendResolved(s, Attr(a0.key, Resolve(a0.val)))

appendAttrs(s, as) ==
    IF as = << >> THEN s
    ELSE Bind(appendAttr(s, Head(as)), LAMBDA s1 : appendAttrs(s1, Tail(as)))

\* Handle, up to the message: time, level, source, msg.
builtIns(h, hp, r) ==
    LET s0 == [newHandleState(h, hp, << >>, <<" ">>) EXCEPT !.groups = NilGroups]
        s1 == IF ~r.time.zero THEN appendSep(appendTime(s0, r.time)) ELSE s0
        s2 == appendSep(appendString(s1, LevelString(r.level)))
        s3 == IF h.opts.AddSource /\ r.level \in {"DEBUG", "ERROR"}
              THEN appendSep(appendAttr(s2, Attr(SourceKey, r.source)))
              ELSE s2
    IN  appendString(s3, r.msg)

appendNonBuiltIns(s, h, hp, r) ==
    IF Len(r.attrs) > 0
    THEN appendAttrs(openGroups([s EXCEPT !.prefix = @ \o h.groupPrefix], h, hp), r.attrs)
    ELSE s

\* The Write calls of one Handle on h.w, in order: one, of the whole buffer.
\* Handle up to the newline: state.groups is restored after the built-ins.
handleState(h, hp, r) ==
    Bind(builtIns(h, hp, r), LAMBDA s :
        appendNonBuiltIns([s EXCEPT !.groups = newHandleState(h, hp, << >>, <<" ">>).groups],
                          h, hp, r))

HandleWritesSplit(h, hp, r) == <<handleState(h, hp, r).buf, <<"\n">>>>

HandleWrites(h, hp, r) == <<handleState(h, hp, r).buf \o <<"\n">>>>

\* WithAttrs past its fast path: the clone, with as rendered after its prefix.
\* the state of WithAttrs after the attributes, h2 being the clone of h
withAttrsState(h, h2, hp, as) ==
    LET old == Elems(hp, h2.preformattedAttrs)
        s0 == [newHandleState(h2, hp, old, << >>) EXCEPT
                  !.prefix = h.groupPrefix,
                  !.sep = IF Len(old) > 0 THEN attrSep ELSE << >>]
    IN  appendAttrs(openGroups(s0, h2, hp), as)

withAttrs(h, hp, as, spare) ==
    LET h2 == clone(h)
        old == Elems(hp, h2.preformattedAttrs)
        s1 == withAttrsState(h, h2, hp, as)
        ap == append(hp, h2.preformattedAttrs, SubSeq(s1.buf, Len(old) + 1, Len(s1.buf)),
                     spare, "")
    IN  [heap |-> ap.heap,
         h2 |-> [h2 EXCEPT !.preformattedAttrs = ap.slice,
                           !.groupPrefix = s1.prefix,
                           !.nOpenGroups = h2.groups.len]]

withGroup(h, hp, name, spare) ==
    LET h2 == clone(h)
        ap == append(hp, h2.groups, <<name>>, spare, << >>)
    IN  [heap |-> ap.heap, h2 |-> [h2 EXCEPT !.groups = ap.slice]]

\* What a handler holds, as Handle and the derivations read it.
View(h, hp) ==
    [preformattedAttrs |-> Elems(hp, h.preformattedAttrs), groupPrefix |-> h.groupPrefix,
     groups |-> Elems(hp, h.groups), nOpenGroups |-> h.nOpenGroups]

NoRecord == [time |-> ZeroTime, level |-> "INFO", msg |-> << >>, attrs |-> << >>,
             source |-> SourceValue(<< >>, 0)]

NoHandle == [op |-> "none", h |-> 0, r |-> NoRecord, writes |-> << >>]

NoEnc == [op |-> "none", arg |-> << >>, out |-> << >>]

\* st: "idle", "render" (the line is being rendered), "lock" (at h.mu.Lock()),
\* "locked" (h.mu is held, before h.w.Write), "write" (in or after h.w.Write,
\* h.mu is held until the deferred Unlock)
NoCall == [h |-> 0, st |-> "idle", n |-> 0]

InitHandlers(addSources, hooks) ==
    /\ \E b \in addSources, rep \in hooks : hs = <<NewDefaultHandler(b, rep)>>
    /\ heap = << >>
    /\ born = <<[parent |-> 0, view |-> View(NewDefaultHandler(TRUE, FALSE), << >>)]>>
    /\ hlast = NoHandle
    /\ enc = NoEnc
    /\ hcall = [c \in 1 .. NProcs |-> NoCall]

-----------------------------------------------------------------------------
\* The configurations and inputs of the model.

SizeConfigs == {<<2, 1>>, <<2, 2>>, <<3, 3>>, <<100, 2>>}   \* <<rMaxSize, rMaxNum>>

\* Payloads: empty, short, and as long as a whole file (60 bytes against 100).
PayloadLens == IF rMaxSize = 100 THEN {60} ELSE IF rType = "daily" THEN {1} ELSE {0, 1, rMaxSize}

Leftover(size) == <<[w |-> 0, n |-> size]>>

\* The log files an earlier run may have left: none, a short one, a full one.
LeftoverDisks(names, max) ==
    UNION {[S -> {Leftover(1), Leftover(max)}] : S \in SUBSET names}

SizePlans == {NoFail} \cup
    [at : 1 .. rMaxNum + 1, kind : {"remove", "open", "stat"}]

DailyPlans == {NoFail} \cup [at : {1}, kind : {"path", "open"}]

Plans == IF rType = "daily" THEN DailyPlans ELSE SizePlans

Pre == [file |-> file, fnRotateIndex |-> fnRotateIndex, rSize |-> rSize,
        fnRotateUsed |-> fnRotateUsed, currentFileTime |-> currentFileTime,
        disk |-> disk, stdoutOpen |-> stdoutOpen, stdoutData |-> stdoutData,
        handles |-> handles]

Last(op, s, p) ==
    [op |-> op, rotated |-> s.rotated, rerr |-> s.err, n |-> s.n, werr |-> s.werr,
     cerr |-> s.cerr, ops |-> s.ops, p |-> p, at |-> now, pre |-> Pre]

NoPayload == [w |-> 0, n |-> 0]

-----------------------------------------------------------------------------
\* NewSizeLogger and NewDailyLogger: the state after a successful construction.

New(max, num) ==
    [rSize |-> max, fnRotateIndex |-> -1, fnRotateUsed |-> [i \in 0 .. num - 1 |-> FALSE],
     currentFileTime |-> 0, file |-> NilFile, disk |-> disk0,
     handles |-> {}, nOpens |-> 0, stdoutOpen |-> TRUE, stdoutData |-> << >>,
     logFile |-> NilFile, err |-> FALSE, rotated |-> FALSE, n |-> 0, werr |-> FALSE,
     cerr |-> FALSE, ops |-> << >>]

Install(s) ==
    /\ rSize = s.rSize
    /\ fnRotateIndex = s.fnRotateIndex
    /\ fnRotateUsed = s.fnRotateUsed
    /\ currentFileTime = s.currentFileTime
    /\ file = s.logFile
    /\ disk = s.disk
    /\ handles = s.handles
    /\ nOpens = s.nOpens
    /\ stdoutOpen = TRUE
    /\ stdoutData = << >>
    /\ nWrites = 0
    /\ nFails = 0
    /\ closed = FALSE
    /\ last = [op |-> "New", rotated |-> FALSE, rerr |-> FALSE, n |-> 0, werr |-> FALSE,
               cerr |-> FALSE,
               ops |-> s.ops, p |-> NoPayload, at |-> now,
               pre |-> [file |-> NilFile, fnRotateIndex |-> -1, rSize |-> rMaxSize,
                        fnRotateUsed |-> [i \in 0 .. rMaxNum - 1 |-> FALSE],
                        currentFileTime |-> 0, disk |-> disk0, stdoutOpen |-> TRUE,
                        stdoutData |-> << >>, handles |-> {}]]

\* configs: the <<rMaxSize, rMaxNum>> to choose from; old: the slots that may
\* hold a file of an earlier run.
NewSizeLogger(lock, configs, old) ==
    /\ rType = "size"
    /\ bLock = lock
    /\ rHour = 0
    /\ now = 0
    /\ \E c \in configs :
         /\ rMaxSize = c[1]
         /\ rMaxNum = c[2]
         /\ disk0 \in LeftoverDisks((0 .. c[2] - 1) \cap old, c[1])
         /\ \E s \in {openNewSizeFile(New(c[1], c[2]), NoFail, 1)} : Install(s)

\* old: may the file of the current minute exist already; hours: the cutover
\* times of day to choose from; starts: the times of construction.
NewDailyLogger(lock, old, hours, starts) ==
    /\ rType = "daily"
    /\ bLock = lock
    /\ rMaxSize = 0
    /\ rMaxNum = 0
    /\ rHour \in hours
    /\ now \in starts
    /\ disk0 \in LeftoverDisks(IF old THEN {now} ELSE {}, 2)
    /\ \E s \in {openNewDailyFile(New(0, 0), "none")} : Install(s)

DayTimes == 0 .. TicksPerDay - 1

Procs == 1 .. NProcs

NoLocals == [p |-> NoPayload, logFile |-> NilFile, err |-> FALSE, n |-> 0, rs |-> 0]

InitProcs ==
    /\ pc = [c \in Procs |-> "idle"]
    /\ mutex = 0
    /\ loc = [c \in Procs |-> NoLocals]

\* The Logger of GetDefaultSizeLogger or GetDefaultDailyLogger, with its handler.
Init ==
    /\ NewSizeLogger(TRUE, SizeConfigs, 0 .. 2) \/ NewDailyLogger(TRUE, TRUE, DayTimes, DayTimes)
    /\ InitProcs
    /\ InitHandlers({TRUE}, {FALSE})

-----------------------------------------------------------------------------
\* The calls, one at a time (serialized by the Logger's lock or by the caller).

Commit(s) ==
    /\ rSize' = s.rSize
    /\ fnRotateIndex' = s.fnRotateIndex
    /\ fnRotateUsed' = s.fnRotateUsed
    /\ currentFileTime' = s.currentFileTime
    /\ file' = s.file
    /\ disk' = s.disk
    /\ handles' = s.handles
    /\ nOpens' = s.nOpens
    /\ stdoutOpen' = s.stdoutOpen
    /\ stdoutData' = s.stdoutData

Write(len, plan) ==
    /\ nWrites < MaxWrites
    /\ plan # NoFail => nFails < MaxFails
    /\ LET p == [w |-> nWrites + 1, n |-> len]
       IN  \E s \in {doWrite(Cur, p, plan)} :
              /\ Commit(s)
              /\ nWrites' = nWrites + 1
              /\ nFails' = nFails + (IF s.err THEN 1 ELSE 0)
              /\ last' = Last("Write", s, p)
    /\ UNCHANGED <<rType, rHour, rMaxSize, rMaxNum, bLock, disk0, now, closed, cvars, hvars>>

Close ==
    /\ \E s \in {doClose(Cur)} :
           /\ Commit(s)
           /\ last' = Last("Close", s, NoPayload)
    /\ closed' = TRUE
    /\ UNCHANGED <<rType, rHour, rMaxSize, rMaxNum, bLock, disk0, now, nWrites, nFails, cvars, hvars>>

Tick ==
    /\ rType = "daily"
    /\ now < MaxDays * TicksPerDay
    /\ now' = now + 1
    /\ UNCHANGED <<rType, rHour, currentFileTime, rMaxSize, rSize, rMaxNum, fnRotateIndex,
                   fnRotateUsed, file, bLock, disk, disk0, handles, nOpens, stdoutOpen,
                   stdoutData, nWrites, nFails, closed, last, cvars, hvars>>

Next ==
    \/ \E len \in PayloadLens, plan \in Plans : Write(len, plan)
    \/ Close
    \/ Tick

Spec == Init /\ [][Next]_vars

-----------------------------------------------------------------------------
\* Concurrent callers: Write and Close statement by statement.  A caller that
\* finds the mutex held waits at its Lock.

\* Write without its Lock and Unlock, to contrast with.
WriteLocksNever == FALSE

WriteLocks == bLock

fixed == <<rType, rHour, rMaxSize, rMaxNum, bLock, disk0, now>>

\* A caller moves on; Write and Close do not touch the handlers.
Goto(c, l) == pc' = [pc EXCEPT ![c] = l] /\ UNCHANGED hvars

CallWrite(c, len) ==
    /\ pc[c] = "idle"
    /\ nWrites < MaxConcWrites
    /\ loc' = [loc EXCEPT ![c] = [NoLocals EXCEPT !.p = [w |-> nWrites + 1, n |-> len]]]
    /\ nWrites' = nWrites + 1
    /\ Goto(c, "wlock")
    /\ UNCHANGED <<fixed, rSize, fnRotateIndex, fnRotateUsed, currentFileTime, file, disk,
                   handles, nOpens, stdoutOpen, stdoutData, nFails, closed, last, mutex>>

\* if l.bLock { l.Lock(); defer l.Unlock() }
WLock(c) ==
    /\ pc[c] = "wlock"
    /\ IF WriteLocks THEN mutex = 0 /\ mutex' = c ELSE mutex' = mutex
    /\ Goto(c, "check")
    /\ UNCHANGED <<wvars, loc>>

\* rotate: the rotation condition
Check(c) ==
    /\ pc[c] = "check"
    /\ Goto(c, IF needRotate(Cur) THEN "open" ELSE "write")
    /\ UNCHANGED <<wvars, mutex, loc>>

\* rotate: logFile, err = l.openNewDailyFile() or l.openNewSizeFile()
Open(c, plan) ==
    /\ pc[c] = "open"
    /\ plan # NoFail => nFails < MaxConcFails
    /\ \E s \in {IF rType = "daily"
                 THEN openNewDailyFile(Cur, IF plan.at = 1 THEN plan.kind ELSE "none")
                 ELSE openNewSizeFile(Cur, plan, 1)} :
          /\ Commit(s)
          /\ loc' = [loc EXCEPT ![c].logFile = s.logFile, ![c].err = s.err]
          /\ nFails' = nFails + (IF s.err THEN 1 ELSE 0)
    /\ Goto(c, "close")
    /\ UNCHANGED <<fixed, nWrites, closed, last, mutex>>

\* rotate: l.file.Close()
CloseOld(c) ==
    /\ pc[c] = "close"
    /\ \E s \in {fileClose(Cur)} : Commit(s)
    /\ Goto(c, "assign")
    /\ UNCHANGED <<fixed, nWrites, nFails, closed, last, mutex, loc>>

\* rotate: l.file = os.Stdout or logFile
Assign(c) ==
    /\ pc[c] = "assign"
    /\ \E s \in {assignFile([Cur EXCEPT !.logFile = loc[c].logFile, !.err = loc[c].err])} :
          Commit(s)
    /\ Goto(c, "write")
    /\ UNCHANGED <<fixed, nWrites, nFails, closed, last, mutex, loc>>

\* n, err = l.file.Write(p)
FileWrite(c) ==
    /\ pc[c] = "write"
    /\ \E s \in {fileWrite(Cur, loc[c].p)} :
          /\ Commit(s)
          /\ loc' = [loc EXCEPT ![c].n = s.n]
    /\ Goto(c, "addread")
    /\ UNCHANGED <<fixed, nWrites, nFails, closed, last, mutex>>

\* l.rSize += int64(n): the read, then the write
AddRead(c) ==
    /\ pc[c] = "addread"
    /\ loc' = [loc EXCEPT ![c].rs = rSize]
    /\ Goto(c, "addwrite")
    /\ UNCHANGED <<wvars, mutex>>

AddWrite(c) ==
    /\ pc[c] = "addwrite"
    /\ rSize' = loc[c].rs + loc[c].n
    /\ Goto(c, "wunlock")
    /\ UNCHANGED <<fixed, fnRotateIndex, fnRotateUsed, currentFileTime, file, disk, handles,
                   nOpens, stdoutOpen, stdoutData, nWrites, nFails, closed, last, mutex, loc>>

WUnlock(c) ==
    /\ pc[c] = "wunlock"
    /\ mutex' = IF WriteLocks THEN 0 ELSE mutex
    /\ loc' = [loc EXCEPT ![c] = NoLocals]
    /\ Goto(c, "idle")
    /\ UNCHANGED wvars

\* Close: l.Lock(); defer l.Unlock()
CallClose(c) ==
    /\ pc[c] = "idle"
    /\ Goto(c, "clock")
    /\ UNCHANGED <<wvars, mutex, loc>>

CLock(c) ==
    /\ pc[c] = "clock"
    /\ mutex = 0
    /\ mutex' = c
    /\ Goto(c, "cclose")
    /\ UNCHANGED <<wvars, loc>>

\* if l.file == nil { return nil }; err := l.file.Close()
CClose(c) ==
    /\ pc[c] = "cclose"
    /\ IF file = NilFile
       THEN /\ Goto(c, "cunlock")
            /\ UNCHANGED <<rSize, fnRotateIndex, fnRotateUsed, currentFileTime, file, disk,
                           handles, nOpens, stdoutOpen, stdoutData>>
       ELSE /\ \E s \in {fileClose(Cur)} : Commit(s)
            /\ Goto(c, "cnil")
    /\ UNCHANGED <<fixed, nWrites, nFails, closed, last, mutex, loc>>

\* l.file = nil
CNil(c) ==
    /\ pc[c] = "cnil"
    /\ file' = NilFile
    /\ closed' = TRUE
    /\ Goto(c, "cunlock")
    /\ UNCHANGED <<fixed, rSize, fnRotateIndex, fnRotateUsed, currentFileTime, disk, handles,
                   nOpens, stdoutOpen, stdoutData, nWrites, nFails, last, mutex, loc>>

CUnlock(c) ==
    /\ pc[c] = "cunlock"
    /\ mutex' = 0
    /\ Goto(c, "idle")
    /\ UNCHANGED <<wvars, loc>>

\* The Logger is made by NewSizeWithLockLogger or NewDailyWithLockLogger.
InitConc ==
    /\ NewSizeLogger(TRUE, {<<2, 2>>}, {0}) \/ NewDailyLogger(TRUE, FALSE, {0}, {0})
    /\ InitProcs
    /\ InitHandlers({TRUE}, {FALSE})

NextConc ==
    \/ \E c \in Procs, len \in PayloadLens \ {0} : CallWrite(c, len)
    \/ \E c \in Procs : WLock(c)
    \/ \E c \in Procs : Check(c)
    \/ \E c \in Procs, plan \in Plans : Open(c, plan)
    \/ \E c \in Procs : CloseOld(c)
    \/ \E c \in Procs : Assign(c)
    \/ \E c \in Procs : FileWrite(c)
    \/ \E c \in Procs : AddRead(c)
    \/ \E c \in Procs : AddWrite(c)
    \/ \E c \in Procs : WUnlock(c)
    \/ \E c \in Procs : CallClose(c)
    \/ \E c \in Procs : CLock(c)
    \/ \E c \in Procs : CClose(c)
    \/ \E c \in Procs : CNil(c)
    \/ \E c \in Procs : CUnlock(c)
    \/ Tick

SpecConc == InitConc /\ [][NextConc]_vars

-----------------------------------------------------------------------------
\* The handler over a Size Logger: derivations and Handle calls, one at a time.

MaxCtx == 4       \* handlers in one behaviour of derivations, the first one included
MaxHandlerCtx == 3  \* handlers in one behaviour with Handle calls
MaxHandles == 2   \* Handle calls in one behaviour

Names == {<<"g">>, <<"h">>}

\* a leaf, an empty group, a group of one leaf, a leaf without key
AttrLists ==
    {<<Attr(<<"a">>, Int64Value(1))>>,
     <<Attr(<<"e">>, GroupValue(<< >>))>>,
     <<Attr(<<"q">>, GroupValue(<<Attr(<<"b">>, StringValue(<<"x", " ">>))>>))>>,
     <<Attr(<< >>, Int64Value(2))>>}

SomeTime == [zero |-> FALSE, year |-> 2024, month |-> 2, day |-> 29, hour |-> 23,
             min |-> 59, sec |-> 7, ns |-> 5000000]

Records ==
    {[time |-> ZeroTime, level |-> "INFO", msg |-> <<"m">>, attrs |-> << >>,
      source |-> SourceValue(<<"f">>, 7)],
     [time |-> SomeTime, level |-> "ERROR", msg |-> <<"a", "\n", "b">>,
      attrs |-> <<Attr(<<"k">>, StringValue(<<"v">>))>>,
      source |-> SourceValue(<<"f">>, 12)]}

HandlerPlans == {NoFail, [at |-> 1, kind |-> "open"]}

\* WithAttrs on the handlers: the handler it returns is h itself, or the new
\* last one of hs.
WithAttrsOn(h, as, spare, max) ==
    /\ Len(hs) < max
    /\ IF countEmptyGroups(as) = Len(as)
       THEN UNCHANGED <<hs, heap, born>>
       ELSE \E d \in {withAttrs(hs[h], heap, as, spare)} :
               /\ hs' = Append(hs, d.h2)
               /\ heap' = d.heap
               /\ born' = Append(born, [parent |-> h, view |-> View(d.h2, d.heap)])

WithAttrs(h, as, spare, max) ==
    /\ WithAttrsOn(h, as, spare, max)
    /\ UNCHANGED <<wvars, cvars, hlast, enc, hcall>>

WithGroup(h, name, spare, max) ==
    /\ Len(hs) < max
    /\ \E d \in {withGroup(hs[h], heap, name, spare)} :
          /\ hs' = Append(hs, d.h2)
          /\ heap' = d.heap
          /\ born' = Append(born, [parent |-> h, view |-> View(d.h2, d.heap)])
    /\ UNCHANGED <<wvars, cvars, hlast, enc, hcall>>

Payload(k, b) == [w |-> k, n |-> Len(b), b |-> b]

\* h.w.Write(b) for each b of ws, from the k-th on
RECURSIVE writeAll(_, _, _, _)
writeAll(s, ws, k, plan) ==
    IF k > Len(ws) THEN s
    ELSE Bind(doWrite(s, Payload(nWrites + k, ws[k]), IF k = 1 THEN plan ELSE NoFail),
              LAMBDA s1 : writeAll(s1, ws, k + 1, plan))

Handle(h, r, plan) ==
    /\ nWrites < MaxHandles
    /\ plan # NoFail => nFails < MaxFails
    /\ \E ws \in {HandleWrites(hs[h], heap, r)} :
          \E s \in {writeAll(Cur, ws, 1, plan)} :
             /\ Commit(s)
             /\ nWrites' = nWrites + Len(ws)
             /\ nFails' = nFails + (IF s.err THEN 1 ELSE 0)
             /\ last' = Last("Write", s, Payload(nWrites + Len(ws), ws[Len(ws)]))
             /\ hlast' = [op |-> "Handle", h |-> h, r |-> r, writes |-> ws]
    /\ UNCHANGED <<rType, rHour, rMaxSize, rMaxNum, bLock, disk0, now, closed, cvars,
                   hs, heap, born, enc, hcall>>

InitHandler ==
    /\ NewSizeLogger(FALSE, {<<4, 2>>}, {})
    /\ InitProcs
    /\ InitHandlers(BOOLEAN, {FALSE})

NextHandler ==
    \/ \E h \in 1 .. Len(hs), as \in AttrLists : WithAttrs(h, as, 0, MaxHandlerCtx)
    \/ \E h \in 1 .. Len(hs) : WithGroup(h, <<"g">>, 0, MaxHandlerCtx)
    \/ \E h \in 1 .. Len(hs), r \in Records, plan \in HandlerPlans : Handle(h, r, plan)

SpecHandler == InitHandler /\ [][NextHandler]_vars

\* The capacity a new array has beyond the need: none, or room for more.
Spares == {0, 5}

NextDerive ==
    \/ \E h \in 1 .. Len(hs), as \in AttrLists, spare \in Spares :
          WithAttrs(h, as, spare, MaxCtx)
    \/ \E h \in 1 .. Len(hs), name \in Names, spare \in Spares :
          WithGroup(h, name, spare, MaxCtx)

SpecDerive == InitHandler /\ [][NextDerive]_vars

-----------------------------------------------------------------------------
\* The encoder on its own: one of its functions applied to an input.

MaxStrLen == 2    \* characters in a string given to appendString

Chars == {"a", " ", "=", "\\", "\n", "\"", DEL} \cup RuneSelfAndUp

Strings == UNION {[1 .. k -> Chars] : k \in 0 .. MaxStrLen}

Encode(op, arg, out) ==
    /\ enc' = [op |-> op, arg |-> arg, out |-> out]
    /\ UNCHANGED <<wvars, cvars, hs, heap, born, hlast, hcall>>

AppendString(str) ==
    Encode("appendString", str, appendString(newHandleState(hs[1], heap, << >>, attrSep), str).buf)

MaxEncCtx == 3    \* handlers the encoder is tried on

\* An attribute as the caller writes it, slog.Group(key, ...) not yet called:
\* its groups hold whatever was listed, empty groups included.
Listed(as) == [kind |-> "group", attrs |-> as]

\* The value the caller's expression constructs.
RECURSIVE Build(_)
Build(v) ==
    IF v.kind = "group"
    THEN GroupValue([i \in 1 .. Len(v.attrs) |->
                        Attr(v.attrs[i].key, Build(v.attrs[i].val))])
    ELSE IF v.kind = "logvaluer" THEN LogValuerValue(Build(v.v))
    ELSE v

BuildAttr(a) == Attr(a.key, Build(a.val))

BuildAttrs(as) == [i \in 1 .. Len(as) |-> BuildAttr(as[i])]

OneAttr == Attr(<<"a">>, Int64Value(1))
EmptyGroupAttr == Attr(<<"e">>, Listed(<< >>))

\* a leaf; an empty group; a group of a leaf and an empty group; a group of an
\* empty group; a group without key; a leaf without key; a group without key
\* inside a group; a lazy value that is a group; a lazy value that is a leaf
ListedAttrs ==
    {OneAttr,
     EmptyGroupAttr,
     Attr(<<"q">>, Listed(<<Attr(<<"b">>, StringValue(<<"x", " ">>)), EmptyGroupAttr>>)),
     Attr(<<"g">>, Listed(<<EmptyGroupAttr>>)),
     Attr(<< >>, Listed(<<Attr(<<"b">>, Int64Value(1))>>)),
     Attr(<< >>, Int64Value(2)),
     Attr(<<"q">>, Listed(<<Attr(<< >>, Listed(<<Attr(<<"b">>, Int64Value(1))>>))>>)),
     Attr(<<"v">>, LogValuerValue(Listed(<<Attr(<<"b">>, Int64Value(1))>>))),
     Attr(<<"v">>, LogValuerValue(Int64Value(3)))}

ListedLists ==
    {<<a>> : a \in ListedAttrs}
        \cup {<<EmptyGroupAttr, OneAttr>>,
              <<EmptyGroupAttr, Attr(<<"g">>, Listed(<<EmptyGroupAttr>>))>>}

\* the lists given to WithAttrs
AttachedLists ==
    {<<OneAttr>>, <<EmptyGroupAttr>>, <<EmptyGroupAttr, OneAttr>>,
     <<EmptyGroupAttr, Attr(<<"g">>, Listed(<<EmptyGroupAttr>>))>>}

\* the nanoseconds of the times given to appendTime
Nanos == {0, 999, 1000, 999999, 1000000, 5000000, 123456789, 999999999}

\* the state appendNonBuiltIns has made when it comes to the first attribute
attrState(h, hp) ==
    openGroups([newHandleState(h, hp, << >>, attrSep) EXCEPT !.prefix = h.groupPrefix],
               h, hp)

AppendAttr(h, a) ==
    \E s \in {attrState(hs[h], heap)} :
        Encode("appendAttr", [h |-> h, a |-> a, s |-> s], appendAttr(s, BuildAttr(a)))

AppendTime(ns) ==
    Encode("appendTime", [SomeTime EXCEPT !.ns = ns],
           appendTime(newHandleState(hs[1], heap, << >>, attrSep),
                      [SomeTime EXCEPT !.ns = ns]).buf)

HandleRecord(h, r, as) ==
    Encode("Handle", [h |-> h, r |-> r, as |-> as],
           handleState(hs[h], heap, [r EXCEPT !.attrs = BuildAttrs(as)]))

EncWithAttrs(h, as, max) ==
    /\ WithAttrsOn(h, BuildAttrs(as), 0, max)
    /\ enc' = [op |-> "WithAttrs", arg |-> [h |-> h, as |-> as],
               out |-> IF Len(hs') = Len(hs) THEN h ELSE Len(hs')]
    /\ UNCHANGED <<wvars, cvars, hlast, hcall>>

InitEncode ==
    /\ NewSizeLogger(FALSE, {<<4, 2>>}, {})
    /\ InitProcs
    /\ InitHandlers({TRUE}, BOOLEAN)

NextEncode ==
    \/ \E str \in Strings : AppendString(str)
    \/ \E ns \in Nanos : AppendTime(ns)

SpecEncode == InitEncode /\ [][NextEncode]_vars

\* The encoder of attributes, on the handlers derived so far.
NextAttrs ==
    \/ \E h \in 1 .. Len(hs), a \in ListedAttrs : AppendAttr(h, a)
    \/ \E h \in 1 .. Len(hs), r \in Records, as \in ListedLists : HandleRecord(h, r, as)
    \/ \E h \in 1 .. Len(hs), as \in AttachedLists : EncWithAttrs(h, as, MaxEncCtx)
    \/ \E h \in 1 .. Len(hs) : WithGroup(h, <<"g">>, 0, MaxEncCtx)

SpecAttrs == InitEncode /\ [][NextAttrs]_vars

MaxGroupCtx == 4    \* handlers in a chain of derivations

\* What a call does with the pools, in order: a buffer or the list of group
\* names is taken ("get") or given back ("put", names: what the list holds
\* then); the call writes the line; it returns.
Get(what) == [op |-> "get", what |-> what, names |-> << >>]
Put(what, names) == [op |-> "put", what |-> what, names |-> names]
WriteEvent(werr) == [op |-> "write", what |-> IF werr THEN "error" ELSE "ok", names |-> << >>]
Return == [op |-> "return", what |-> "", names |-> << >>]

\* NewBuffer(): a buffer is taken from the pool of buffers
NewBuffer(what) == Get(what)

\* Buffer.Free(): the buffer goes back to the pool of buffers
Free(what) == Put(what, << >>)

\* newHandleState, the argument NewBuffer() of Handle included (bufGet)
newHandleStatePool(h, bufGet) ==
    bufGet \o <<NewBuffer("prefix")>>
           \o (IF h.opts.ReplaceAttr THEN <<Get("groups")>> ELSE << >>)

\* free that gives s.buf back whatever freeBuf is, to contrast with.
freeAlways(s, buf, freeBuf) ==
    <<Free(buf)>>
        \o (IF ~s.groups.nil THEN <<Put("groups", SubSeq(s.groups.names, 1, 0))>> ELSE << >>)
        \o <<Free("prefix")>>

\* s.free(), s.buf being the buffer called buf
free(s, buf, freeBuf) ==
    (IF freeBuf THEN <<Free(buf)>> ELSE << >>)
        \o (IF ~s.groups.nil THEN <<Put("groups", SubSeq(s.groups.names, 1, 0))>> ELSE << >>)
        \o <<Free("prefix")>>

\* Handle: the deferred free runs after the Write, whatever it returned.
handlePool(h, hp, r, werr) ==
    newHandleStatePool(h, <<NewBuffer("buf")>>)
        \o <<WriteEvent(werr)>>
        \o free(handleState(h, hp, r), "buf", TRUE)
        \o <<Return>>

withAttrsPool(h, hp, as) ==
    IF countEmptyGroups(as) = Len(as) THEN <<Return>>
    ELSE newHandleStatePool(h, << >>)
            \o free(withAttrsState(h, clone(h), hp, as), "preformattedAttrs", FALSE)
            \o <<Return>>

MaxPoolCtx == 3    \* handlers whose calls are followed

HandlePool(h, r, werr) ==
    Encode("handlePool", [h |-> h, r |-> r, werr |-> werr], handlePool(hs[h], heap, r, werr))

WithAttrsPool(h, as) ==
    Encode("withAttrsPool", [h |-> h, as |-> as], withAttrsPool(hs[h], heap, BuildAttrs(as)))

NextPool ==
    \/ \E h \in 1 .. Len(hs), r \in Records, werr \in BOOLEAN : HandlePool(h, r, werr)
    \/ \E h \in 1 .. Len(hs), as \in AttachedLists : WithAttrsPool(h, as)
    \/ \E h \in 1 .. Len(hs), as \in AttachedLists : EncWithAttrs(h, as, MaxPoolCtx)
    \/ \E h \in 1 .. Len(hs) : WithGroup(h, <<"g">>, 0, MaxPoolCtx)

SpecPool == InitEncode /\ [][NextPool]_vars

\* Chains of WithGroup and WithAttrs, and one attribute rendered at their end.
NextGroups ==
    \/ \E h \in 1 .. Len(hs) : AppendAttr(h, OneAttr)
    \/ \E h \in 1 .. Len(hs), as \in AttachedLists : EncWithAttrs(h, as, MaxGroupCtx)
    \/ \E h \in 1 .. Len(hs), name \in Names : WithGroup(h, name, 0, MaxGroupCtx)

SpecGroups == InitEncode /\ [][NextGroups]_vars

-----------------------------------------------------------------------------
\* The constructors of a Size writer, the loop of openNewSizeFile turn by turn.

MaxTurns == 5    \* turns of the loop that are followed

DefaultMaxSize == 1048576    \* 1024 * 1024
DefaultMaxNum == 10

\* the rMaxSize and rMaxNum a constructor makes of its arguments
NewSizeLoggerArgs(size, number) ==
    <<IF size <= 0 THEN DefaultMaxSize ELSE size, IF number < 1 THEN DefaultMaxNum ELSE number>>

\* the earlier constructor
NewSizeRotatedLoggerArgs(size, number) ==
    <<IF size < 0 THEN DefaultMaxSize ELSE size, IF number < 1 THEN DefaultMaxNum ELSE number>>

\* the arguments the constructors are called with
SizeArgs == {-1, 0, 2}
NumberArgs == {0, 1, 2}

\* the constructor is about to call openNewSizeFile
InitLoop ==
    /\ rType = "size"
    /\ bLock = FALSE
    /\ rHour = 0
    /\ now = 0
    /\ \E size \in SizeArgs, number \in NumberArgs :
          \E c \in {NewSizeLoggerArgs(size, number), NewSizeRotatedLoggerArgs(size, number)} :
             /\ rMaxSize = c[1]
             /\ rMaxNum = c[2]
             /\ disk0 \in LeftoverDisks((0 .. c[2] - 1) \cap {0, 1},
                                       IF c[1] = 0 THEN 1 ELSE c[1])
             /\ Install(New(c[1], c[2]))
    /\ pc = [c \in Procs |-> IF c = 1 THEN "loop" ELSE "idle"]
    /\ mutex = 0
    /\ loc = [c \in Procs |-> NoLocals]
    /\ InitHandlers({TRUE}, {FALSE})

\* for l.rSize >= l.rMaxSize { ... }: one turn
LoopTurn(fk) ==
    /\ pc[1] = "loop"
    /\ ~loc[1].err
    /\ rSize >= rMaxSize
    /\ loc[1].n < MaxTurns
    /\ \E s \in {loopTurn([Cur EXCEPT !.logFile = loc[1].logFile], fk)} :
          /\ Commit(s)
          /\ loc' = [loc EXCEPT ![1].logFile = s.logFile, ![1].err = s.err, ![1].n = @ + 1]
    /\ UNCHANGED <<fixed, nWrites, nFails, closed, last, mutex, pc, hvars>>

\* return logFile, nil or return nil, err; l.file, err = l.openNewSizeFile()
LoopReturn ==
    /\ pc[1] = "loop"
    /\ loc[1].err \/ rSize < rMaxSize
    /\ file' = loc[1].logFile
    /\ pc' = [pc EXCEPT ![1] = "idle"]
    /\ UNCHANGED <<fixed, rSize, fnRotateIndex, fnRotateUsed, currentFileTime, disk, handles,
                   nOpens, stdoutOpen, stdoutData, nWrites, nFails, closed, last, mutex, loc,
                   hvars>>

NextLoop ==
    \/ \E fk \in {"none", "remove", "open", "stat"} : LoopTurn(fk)
    \/ LoopReturn

SpecLoop == InitLoop /\ [][NextLoop]_vars

-----------------------------------------------------------------------------
\* Concurrent Handle calls on the handlers derived from one root, over a Logger
\* that does not lock: Handle renders, locks h.mu, calls h.w.Write (statement
\* by statement, as above) and unlocks.

MaxFamily == 2    \* handlers of the family

FamilyRecord == CHOOSE r \in Records : r.level = "INFO"

\* caller c holds the mutex of the handler it is calling
HoldsMu(c) == hcall[c].st \in {"locked", "write"}

\* calls started that have not reached their Write
Started == Cardinality({c \in Procs : hcall[c].st \in {"render", "lock", "locked"}})

HCall(c, h) ==
    /\ pc[c] = "idle"
    /\ hcall[c].st = "idle"
    /\ nWrites + Started < MaxConcWrites
    /\ hcall' = [hcall EXCEPT ![c] = [h |-> h, st |-> "render", n |-> 0]]
    /\ UNCHANGED <<wvars, cvars, hs, heap, born, hlast, enc>>

\* Handle up to state.buf.WriteByte('\n')
HRender(c) ==
    /\ hcall[c].st = "render"
    /\ hcall' = [hcall EXCEPT ![c].st = "lock",
                              ![c].n = Len(HandleWrites(hs[hcall[c].h], heap, FamilyRecord)[1])]
    /\ UNCHANGED <<wvars, cvars, hs, heap, born, hlast, enc>>

\* h.mu.Lock(); defer h.mu.Unlock()
HLock(c) ==
    /\ hcall[c].st = "lock"
    /\ \A d \in Procs \ {c} : HoldsMu(d) => hs[hcall[d].h].mu # hs[hcall[c].h].mu
    /\ hcall' = [hcall EXCEPT ![c].st = "locked"]
    /\ UNCHANGED <<wvars, cvars, hs, heap, born, hlast, enc>>

\* _, err := h.w.Write(*state.buf): the call
HWrite(c) ==
    /\ hcall[c].st = "locked"
    /\ pc[c] = "idle"
    /\ loc' = [loc EXCEPT ![c] = [NoLocals EXCEPT !.p = [w |-> nWrites + 1, n |-> hcall[c].n]]]
    /\ nWrites' = nWrites + 1
    /\ pc' = [pc EXCEPT ![c] = "wlock"]
    /\ hcall' = [hcall EXCEPT ![c].st = "write"]
    /\ UNCHANGED <<fixed, rSize, fnRotateIndex, fnRotateUsed, currentFileTime, file, disk,
                   handles, nOpens, stdoutOpen, stdoutData, nFails, closed, last, mutex,
                   hs, heap, born, hlast, enc>>

\* the Write has returned: return err, and the deferred Unlock
HUnlock(c) ==
    /\ hcall[c].st = "write"
    /\ pc[c] = "idle"
    /\ hcall' = [hcall EXCEPT ![c] = NoCall]
    /\ UNCHANGED <<wvars, cvars, hs, heap, born, hlast, enc>>

\* The Logger is made by NewSizeLogger: Write does not lock.
InitFamily ==
    /\ NewSizeLogger(FALSE, {<<2, 2>>}, {0})
    /\ InitProcs
    /\ InitHandlers({TRUE}, {FALSE})

NextFamily ==
    \/ \E h \in 1 .. Len(hs) : WithAttrs(h, <<OneAttr>>, 0, MaxFamily)
    \/ \E h \in 1 .. Len(hs) : WithGroup(h, <<"g">>, 0, MaxFamily)
    \/ \E c \in Procs, h \in 1 .. Len(hs) : HCall(c, h)
    \/ \E c \in Procs : HRender(c)
    \/ \E c \in Procs : HLock(c)
    \/ \E c \in Procs : HWrite(c)
    \/ \E c \in Procs : WLock(c)
    \/ \E c \in Procs : Check(c)
    \/ \E c \in Procs, plan \in Plans : Open(c, plan)
    \/ \E c \in Procs : CloseOld(c)
    \/ \E c \in Procs : Assign(c)
    \/ \E c \in Procs : FileWrite(c)
    \/ \E c \in Procs : AddRead(c)
    \/ \E c \in Procs : AddWrite(c)
    \/ \E c \in Procs : WUnlock(c)
    \/ \E c \in Procs : HUnlock(c)

SpecFamily == InitFamily /\ [][NextFamily]_vars

-----------------------------------------------------------------------------
\* Reading the record of the last call.

IsWrite == last.op = "Write"
Rotated == IsWrite /\ last.rotated
RotatedOK == Rotated /\ ~last.rerr
NextSlot(i) == (i + 1) % rMaxNum

\* The turns of the slot-advance loop in the last call: its remove, open and
\* (failed) stat operations, in order.
Turns == SelectSeq(last.ops, LAMBDA o : o.op \in {"remove", "open", "stat"})

\* A leftover file no Write of this writer has entered, already at the limit.
FullLeftover(i) ==
    /\ ~last.pre.fnRotateUsed[i]
    /\ i \in DOMAIN last.pre.disk
    /\ FileSize(last.pre.disk[i]) >= rMaxSize

P(k, len) == [w |-> k, n |-> len]

-----------------------------------------------------------------------------
\* C1, as stated: under the Size policy a Write rotates exactly when the counter
\* has crossed maxBytes, the rotation leaves the slot index at (previous+1) mod
\* maxSlots, and a slot that was used before then holds the bytes of this Write
\* only (stated for the runs in which no file operation fails).  Violated: a
\* leftover file of maxBytes or more in the next slot, not yet used by this
\* writer, is passed over.
C1_Original ==
    (rType = "size" /\ IsWrite /\ nFails = 0) =>
        /\ last.rotated <=> last.pre.rSize >= rMaxSize
        /\ last.rotated =>
             /\ fnRotateIndex = NextSlot(last.pre.fnRotateIndex)
             /\ last.pre.fnRotateUsed[fnRotateIndex] =>
                  /\ fnRotateIndex \in DOMAIN disk
                  /\ disk[fnRotateIndex] = <<last.p>>

\* C1, amended: under the Size policy a Write rotates exactly when the counter
\* had reached maxBytes before it; a rotation that succeeds ends in slot
\* (previous+1) mod maxSlots unless that slot holds a not-yet-used leftover file
\* of maxBytes or more, the slot it ends in holds the bytes of this Write only
\* if it was used before (deleted and recreated, not appended to), the writer
\* writes to that slot, and the counter restarts below maxBytes, so the same
\* crossing does not rotate again.
C1_Amended ==
    (rType = "size" /\ IsWrite) =>
        /\ last.rotated <=> last.pre.rSize >= rMaxSize
        /\ RotatedOK =>
             /\ ~FullLeftover(NextSlot(last.pre.fnRotateIndex)) =>
                  fnRotateIndex = NextSlot(last.pre.fnRotateIndex)
             /\ last.pre.fnRotateUsed[fnRotateIndex] => disk[fnRotateIndex] = <<last.p>>
             /\ file.k = "file" /\ file.name = fnRotateIndex
             /\ last.n = last.p.n
             /\ rSize - last.n < rMaxSize

C1_Witness ==
    /\ rType = "size" /\ rMaxNum > 1 /\ RotatedOK
    /\ last.pre.fnRotateUsed[fnRotateIndex]
    /\ fnRotateIndex = NextSlot(last.pre.fnRotateIndex)
    /\ last.p.n > 0

-----------------------------------------------------------------------------
\* The example: maxBytes = 100, maxSlots = 2, no file at construction, 60-byte
\* Writes, no failure and no Close.
Example ==
    /\ rType = "size" /\ rMaxSize = 100 /\ rMaxNum = 2
    /\ disk0 = << >>
    /\ nFails = 0 /\ ~closed

\* C2, as stated: the first payload alone in slot 0, then the second in slot 1
\* after a first rotation, then the third alone in slot 0 after a second one.
C2_Original ==
    Example =>
        /\ nWrites = 1 => disk = (0 :> <<P(1, 60)>>)
        /\ nWrites = 2 => disk = (0 :> <<P(1, 60)>> @@ 1 :> <<P(2, 60)>>)
        /\ nWrites = 3 => disk = (0 :> <<P(3, 60)>> @@ 1 :> <<P(2, 60)>>)

\* C2, amended: slot 0 is opened at construction; the first two payloads both
\* land in slot 0 (120 bytes: the counter was 0, then 60, below 100 when it was
\* checked), and the third Write rotates once, into slot 1, which then holds
\* the third payload alone (60 bytes).
C2_Amended ==
    Example =>
        /\ nWrites = 0 => disk = (0 :> << >>) /\ fnRotateIndex = 0 /\ rSize = 0
        /\ nWrites = 1 => disk = (0 :> <<P(1, 60)>>) /\ fnRotateIndex = 0 /\ rSize = 60
        /\ nWrites = 2 => disk = (0 :> <<P(1, 60), P(2, 60)>>)
                          /\ fnRotateIndex = 0 /\ rSize = 120
        /\ nWrites = 3 => disk = (0 :> <<P(1, 60), P(2, 60)>> @@ 1 :> <<P(3, 60)>>)
                          /\ fnRotateIndex = 1 /\ rSize = 60

C2_Witness == Example /\ nWrites = 3 /\ IsWrite /\ last.rotated /\ fnRotateIndex = 1

-----------------------------------------------------------------------------
\* Whenever a slot that was used before this call, or entered earlier in it, is
\* opened, the operation just before is the successful removal of its file.
EnteredBefore(k) ==
    \/ last.pre.fnRotateUsed[Turns[k].name]
    \/ \E j \in 1 .. k - 1 :
          /\ Turns[j] = Sys("open", Turns[k].name, TRUE)
          /\ Turns[j + 1].op # "stat"

DeletedBeforeCreated ==
    \A k \in 1 .. Len(Turns) :
        (Turns[k].op = "open" /\ EnteredBefore(k)) =>
            k > 1 /\ Turns[k - 1] = Sys("remove", Turns[k].name, TRUE)

\* C3, as stated: the slots the writer writes to, one rotation after the other,
\* are 0, 1, ..., maxSlots-1, 0, ... with none skipped, and a used slot's file
\* is deleted before the new one is created.  Violated: a slot holding a full
\* leftover file is skipped (at construction too).
C3_Original ==
    (rType = "size" /\ last.op \in {"New", "Write"}) =>
        /\ last.op = "New" => file.name = 0
        /\ (Rotated /\ last.pre.file.k = "file" /\ file.k = "file") =>
              file.name = NextSlot(last.pre.file.name)
        /\ DeletedBeforeCreated

\* C3, amended: the slot index advances by exactly one, modulo maxSlots, on
\* every turn of the slot-advance loop, from slot 0 at construction, so slots
\* are tried in the order 0, 1, ..., maxSlots-1, 0, ...; a slot is passed over
\* without being written when it holds a not-yet-used leftover file of maxBytes
\* or more, or when deleting or opening it fails; and whenever a slot that was
\* used before is entered, its file is deleted before the new one is created.
C3_Amended ==
    (rType = "size" /\ last.op \in {"New", "Write"}) =>
        /\ Turns # << >> =>
             /\ Turns[1].name = NextSlot(last.pre.fnRotateIndex)
             /\ Turns[Len(Turns)].name = fnRotateIndex
        /\ Turns = << >> => fnRotateIndex = last.pre.fnRotateIndex
        /\ \A k \in 1 .. Len(Turns) - 1 :
             Turns[k + 1].name =
                IF Turns[k] = Sys("open", Turns[k].name, TRUE) /\ Turns[k + 1].op # "stat"
                THEN NextSlot(Turns[k].name) ELSE Turns[k].name
        /\ \A k \in 1 .. Len(Turns) - 1 :
             \* the loop goes on past slot k only over a file at the limit
             (Turns[k].op = "open" /\ Turns[k + 1].name # Turns[k].name) =>
                 FullLeftover(Turns[k].name)
        /\ DeletedBeforeCreated

C3_Witness ==
    /\ rType = "size" /\ rMaxNum = 3 /\ RotatedOK
    /\ last.pre.fnRotateIndex = 2 /\ fnRotateIndex = 0
    /\ Turns = <<Sys("remove", 0, TRUE), Sys("open", 0, TRUE)>>

-----------------------------------------------------------------------------
-----------------------------------------------------------------------------
\* C5, as claimed: a Write whose rotation fails closes the previous handle,
\* writes all its bytes to standard output and returns no error.  Violated by
\* the code: a rotation (failed or not) that starts on standard output closes
\* standard output, and so does Close; the bytes of a Write that then falls
\* back are lost and Write returns an error.
C5_FallbackWrites ==
    (IsWrite /\ last.rotated /\ last.rerr) =>
        /\ file = Stdout
        /\ last.pre.file.k = "file" => last.pre.file.h \notin handles
        /\ ~last.werr
        /\ last.n = last.p.n
        /\ stdoutData = Append(last.pre.stdoutData, last.p)

-----------------------------------------------------------------------------
-----------------------------------------------------------------------------
\* A caller is inside Write or Close: past its Lock, not yet past its Unlock.
InCall(c) == pc[c] \notin {"idle", "wlock", "clock"}

\* C6: with internal locking, concurrent Writes (and Closes) are serialized: at
\* most one caller is inside a call; a caller that is about to open the next
\* file still finds the rotation condition true (no second rotation on one
\* crossing); a caller about to write to a file finds its handle open (nobody
\* closed it in between); the counter a caller adds to is the one it read (no
\* update is lost), and between calls the Size counter is the size of the file
\* written to.
C6_Serialized ==
    bLock =>
        /\ \A c, d \in Procs : (InCall(c) /\ InCall(d)) => c = d
        /\ \A c \in Procs :
             /\ pc[c] = "open" => needRotate(Cur)
             /\ (pc[c] = "write" /\ file.k = "file") => file.h \in handles
             /\ pc[c] = "addwrite" => loc[c].rs = rSize
        /\ ((\A c \in Procs : ~InCall(c)) /\ rType = "size" /\ file.k = "file") =>
             rSize = FileSize(disk[file.name])

C6_Witness ==
    /\ bLock
    /\ \E c, d \in Procs :
          /\ c # d
          /\ pc[c] \in {"open", "addwrite"}
          /\ pc[d] = "wlock"

-----------------------------------------------------------------------------
IsHandle == hlast.op = "Handle"

\* b is one line: it ends in a newline and holds no other.
OneLine(b) ==
    /\ Len(b) > 0
    /\ b[Len(b)] = "\n"
    /\ \A i \in 1 .. Len(b) - 1 : b[i] # "\n"

Holds(data, p) == \E i \in 1 .. Len(data) : data[i] = p

\* The files, and standard output, that hold payload p.
Landed(p) ==
    Cardinality({f \in DOMAIN disk : Holds(disk[f], p)})
        + (IF Holds(stdoutData, p) THEN 1 ELSE 0)

\* C7: a Handle call issues exactly one Write on its writer; the bytes of that
\* Write are one line, ending in the only newline they hold; the Write puts all
\* of them or (when it fails) none of them into exactly one place, the file the
\* rotation before the write left current (or the fallback), and every file
\* holds whole lines of Handle calls only.
C7_OneLineOneFile ==
    IsHandle =>
        /\ Len(hlast.writes) = 1
        /\ OneLine(hlast.writes[1])
        /\ last.op = "Write" /\ last.p = Payload(nWrites, hlast.writes[1])
        /\ last.n \in {0, last.p.n}
        /\ Landed(last.p) = IF last.n > 0 THEN 1 ELSE 0
        /\ (last.n > 0 /\ file.k = "file") =>
              disk[file.name][Len(disk[file.name])] = last.p
        /\ (last.n > 0 /\ file.k = "file" /\ last.rotated) => disk[file.name] = <<last.p>>
        /\ \A f \in DOMAIN disk : \A i \in 1 .. Len(disk[f]) : OneLine(disk[f][i].b)
        /\ \A i \in 1 .. Len(stdoutData) : OneLine(stdoutData[i].b)

C7_Witness ==
    /\ IsHandle /\ last.rotated /\ ~last.rerr /\ last.n > 0
    /\ \E i \in 1 .. Len(hlast.r.msg) : hlast.r.msg[i] = "\n"
    /\ Len(hlast.r.attrs) > 0
    /\ Cardinality(DOMAIN disk) = 2

-----------------------------------------------------------------------------
PreBytes(h) == Elems(heap, hs[h].preformattedAttrs)

\* C8: a line of Handle on a handler whose WithAttrs rendered some bytes holds,
\* right after the message and a separator, exactly those bytes.
C8_PrefixInEveryLine ==
    (IsHandle /\ Len(PreBytes(hlast.h)) > 0) =>
        LET line == hlast.writes[1]
            m == Len(builtIns(hs[hlast.h], heap, hlast.r).buf)
            pre == PreBytes(hlast.h)
        IN  /\ Len(line) >= m + Len(attrSep) + Len(pre)
            /\ SubSeq(line, m + 1, m + Len(attrSep)) = attrSep
            /\ SubSeq(line, m + Len(attrSep) + 1, m + Len(attrSep) + Len(pre)) = pre

-----------------------------------------------------------------------------
\* C9: whatever is derived later, from it or from any other handler, a handler
\* holds what it held when it was made: the same pre-rendered bytes, group
\* prefix, group names and count of groups in the pre-rendered bytes.
C9_NeverMutated ==
    \A i \in 1 .. Len(hs) : View(hs[i], heap) = born[i].view

\* Two handlers derived from one whose array had room left, each adding to it.
C9_Witness ==
    \E i, j \in 1 .. Len(hs) :
        /\ i < j
        /\ born[i].parent = born[j].parent
        /\ \E q \in {born[i].parent} :
              /\ q > 0
              /\ \/ /\ hs[q].groups.cap > hs[q].groups.len
                    /\ hs[i].groups.len > hs[q].groups.len
                    /\ hs[j].groups.len > hs[q].groups.len
                    /\ Elems(heap, hs[i].groups) # Elems(heap, hs[j].groups)
                 \/ /\ hs[q].preformattedAttrs.cap > hs[q].preformattedAttrs.len
                    /\ hs[i].preformattedAttrs.len > hs[q].preformattedAttrs.len
                    /\ hs[j].preformattedAttrs.len > hs[q].preformattedAttrs.len
                    /\ PreBytes(i) # PreBytes(j)

-----------------------------------------------------------------------------
\* What Close can change, now and before the last call.
Owned ==
    [file |-> file, fnRotateIndex |-> fnRotateIndex, rSize |-> rSize,
     fnRotateUsed |-> fnRotateUsed, currentFileTime |-> currentFileTime, disk |-> disk,
     stdoutOpen |-> stdoutOpen, stdoutData |-> stdoutData, handles |-> handles]

\* C11: a Close on a writer that has a handle closes that handle and leaves the
\* writer without one; a Close on a writer without a handle (closed before)
\* returns no error, makes no file operation and changes nothing.
C11_CloseIdempotent ==
    last.op = "Close" =>
        /\ file = NilFile
        /\ last.pre.file = NilFile => (~last.cerr /\ last.ops = << >> /\ Owned = last.pre)
        /\ last.pre.file.k = "file" =>
              /\ last.pre.file.h \notin handles
              /\ last.ops = <<Sys("close", last.pre.file.name, TRUE)>>
              /\ ~last.cerr
              /\ Owned = [last.pre EXCEPT !.file = NilFile, !.handles = @ \ {last.pre.file.h}]

\* A second Close, after a first one that closed a file.
C11_Witness ==
    /\ last.op = "Close" /\ last.pre.file = NilFile /\ closed
    /\ nOpens > 0 /\ handles = {} /\ nWrites > 0

-----------------------------------------------------------------------------
SlotFiles == 0 .. rMaxNum - 1

IsPrefix(a, b) == Len(a) <= Len(b) /\ SubSeq(b, 1, Len(a)) = a

\* C12: under the Size policy every file operation of the writer is on one of
\* the maxSlots slot files; a file is left as it was, appended to, deleted, or
\* deleted and created again; so no more than maxSlots log files exist.
C12_OnlySlotFiles ==
    rType = "size" =>
        /\ DOMAIN disk \subseteq SlotFiles
        /\ Cardinality(DOMAIN disk) <= rMaxNum
        /\ \A i \in 1 .. Len(last.ops) :
              \/ last.ops[i].name \in SlotFiles
              \/ last.ops[i].op \in {"closeStdout", "writeStdout"}
              \/ last.ops[i] = Sys("close", -1, FALSE)   \* Close on a nil *os.File
        /\ \A f \in DOMAIN disk :
              \/ f \in DOMAIN last.pre.disk /\ IsPrefix(last.pre.disk[f], disk[f])
              \/ /\ \E i \in 1 .. Len(last.ops) : last.ops[i] = Sys("open", f, TRUE)
                 /\ disk[f] \in {<< >>, <<last.p>>}

\* Every slot file exists, and a rotation has come round to slot 0 again.
C12_Witness ==
    /\ rType = "size" /\ rMaxNum = 3 /\ DOMAIN disk = SlotFiles
    /\ RotatedOK /\ last.pre.fnRotateIndex = 2 /\ fnRotateIndex = 0
    /\ disk[0] = <<last.p>> /\ last.p.n > 0

-----------------------------------------------------------------------------
IsAppendString == enc.op = "appendString"

Quoted(str) == <<"\"">> \o quoteBody(str) \o <<"\"">>

Has(str, cs) == \E i \in 1 .. Len(str) : str[i] \in cs

\* C13, as stated: a string is written in quotes exactly when it is empty or
\* holds a space, an '=', a backslash, a control character, a double quote, or
\* a code point that is whitespace, not printable or badly encoded; else as it
\* is.  Violated: a backslash, and DEL, do not ask for quotes.
C13_Original ==
    IsAppendString =>
        enc.out = IF \/ Len(enc.arg) = 0
                     \/ Has(enc.arg, {" ", "=", "\\", "\n", "\t", "\"", DEL, NoBreakSpace,
                                      ZeroWidthSpace, BadByte})
                  THEN Quoted(enc.arg)
                  ELSE enc.arg

\* C13, amended: a string is written in quotes exactly when it is empty or
\* holds a space, an '=', a control character below 0x20, a double quote, or,
\* beyond ASCII, a code point that is whitespace, not printable, badly encoded
\* or the replacement character U+FFFD; a backslash and the byte 0x7F alone do
\* not ask for quotes; every other string is written as it is.
C13_Amended ==
    IsAppendString =>
        enc.out = IF \/ Len(enc.arg) = 0
                     \/ Has(enc.arg, {" ", "=", "\n", "\t", "\"", NoBreakSpace,
                                      ZeroWidthSpace, BadByte, Replacement})
                  THEN Quoted(enc.arg)
                  ELSE enc.arg

\* A string left as it is although it holds a backslash.
C13_Witness ==
    /\ IsAppendString /\ Has(enc.arg, {"\\"}) /\ Has(enc.arg, {Letter})
    /\ enc.out = enc.arg


\* A listed group with zero children, and a list without any, at every depth.
ListedEmpty(v) == v.kind = "group" /\ v.attrs = << >>

RECURSIVE Prune(_)
Prune(as) ==
    LET inner == [i \in 1 .. Len(as) |->
                     IF as[i].val.kind = "group"
                     THEN Attr(as[i].key, Listed(Prune(as[i].val.attrs)))
                     ELSE as[i]]
    IN  SelectSeq(inner, LAMBDA a : ~ListedEmpty(a.val))

\* C14: an attribute that is a group with no children leaves the encoder's
\* state as it was (no byte, no separator, same key prefix, same open groups);
\* an attribute list renders as the list without its empty groups does, at
\* every depth, in appendAttr, in Handle and in WithAttrs; and WithAttrs of
\* empty groups only returns the handler it was called on.
C14_EmptyGroupsVanish ==
    /\ enc.op = "appendAttr" =>
          /\ ListedEmpty(Build(enc.arg.a.val)) => enc.out = enc.arg.s
          /\ enc.out = appendAttrs(enc.arg.s, BuildAttrs(Prune(<<enc.arg.a>>)))
          /\ enc.out.prefix = enc.arg.s.prefix
          /\ enc.out.groups = enc.arg.s.groups
    /\ enc.op = "Handle" =>
          enc.out.buf = handleState(hs[enc.arg.h], heap,
                                    [enc.arg.r EXCEPT !.attrs =
                                        BuildAttrs(Prune(enc.arg.as))]).buf
    /\ enc.op = "WithAttrs" =>
          /\ (\A i \in 1 .. Len(enc.arg.as) : ListedEmpty(Build(enc.arg.as[i].val)))
                => enc.out = enc.arg.h
          /\ View(hs[enc.out], heap)
                = IF Prune(enc.arg.as) = << >>
                  THEN View(hs[enc.arg.h], heap)
                  ELSE Bind(withAttrs(hs[enc.arg.h], heap, BuildAttrs(Prune(enc.arg.as)), 0),
                            LAMBDA d : View(d.h2, d.heap))

\* appendAttr, under an open group, of a group that lists a leaf and an empty
\* group: only the leaf is written.
C14_Witness ==
    /\ enc.op = "appendAttr"
    /\ enc.arg.a = Attr(<<"q">>, Listed(<<Attr(<<"b">>, StringValue(<<"x", " ">>)),
                                          EmptyGroupAttr>>))
    /\ enc.arg.s.prefix = <<"g", ".">>
    /\ enc.out.buf = <<" ", "g", ".", "q", ".", "b", "=", "\"", "x", " ", "\"">>

\* C15: appendAttr of an attribute without key writes, when its value is a
\* group with children, what its children write at the current prefix, and
\* writes nothing otherwise.
C15_EmptyKeyGroupInlined ==
    enc.op = "appendAttr" /\ enc.arg.a.key = << >> =>
        LET v == Resolve(Build(enc.arg.a.val))
        IN  IF v.kind = "group" /\ Len(v.attrs) > 0
            THEN enc.out.buf = appendAttrs(enc.arg.s, v.attrs).buf
            ELSE enc.out.buf = enc.arg.s.buf

IsAppendTime == enc.op = "appendTime"

ThreeDigits(n) == <<Digit(n \div 100), Digit((n \div 10) % 10), Digit(n % 10)>>

\* C16: appendTime writes YYYY-MM-DDThh:mm:ss.mmm, the fraction being the three
\* digits of the nanoseconds divided by 1,000,000.
C16_Milliseconds ==
    IsAppendTime =>
        enc.out = <<"2", "0", "2", "4", "-", "0", "2", "-", "2", "9", "T",
                    "2", "3", ":", "5", "9", ":", "0", "7", ".">>
                      \o ThreeDigits(enc.arg.ns \div 1000000)

\* C17: the open file handles are exactly the current one, or none when the
\* writer is closed or on standard output.
C17_OneHandle == handles = IF file.k = "file" THEN {file.h} ELSE {}

\* C18: the byte counter is the bytes written to the current file since it
\* became current; so, under the Daily policy as well, a Write that rotated to a
\* new file leaves the counter at the bytes it wrote itself.
C18_DailyCounterRestarts ==
    [][nWrites' = nWrites + 1 /\ rType = "daily" /\ last'.rotated /\ ~last'.rerr
          => rSize' = last'.n]_vars

\* the last call opened the file of slot i
OpenedSlot(i) == \E k \in 1 .. Len(last.ops) : last.ops[k] = Sys("open", i, TRUE)

\* C19: the slot index of a Size writer is in 0 .. rMaxNum - 1, and the slot it
\* names is marked used once the writer has opened its file.
C19_IndexAndUsed ==
    rType = "size" =>
        /\ fnRotateIndex \in 0 .. rMaxNum - 1
        /\ OpenedSlot(fnRotateIndex) => fnRotateUsed[fnRotateIndex]

\* the calls of the hook that the last call of the encoder made
HookCalls == IF enc.op \in {"appendAttr", "Handle"} THEN enc.out.calls ELSE << >>

\* C20: the hook is never given an attribute whose value is a group.
C20_HookNeverGetsGroup ==
    \A k \in 1 .. Len(HookCalls) : HookCalls[k].attr.val.kind # "group"

IsHandleRecord == enc.op = "Handle"

\* the i-th character of b is inside a quoted string
InQuotes(b, i) ==
    Cardinality({j \in 1 .. i - 1 : b[j] = "\"" /\ (j = 1 \/ b[j - 1] # "\\")}) % 2 = 1

\* C21: the line of Handle does not begin with a separator, and no separator
\* is followed by another one.
C21_SingleSeparators ==
    IsHandleRecord =>
        LET b == enc.out.buf
        IN  /\ Len(b) > 0 => b[1] # " "
            /\ \A i \in 1 .. Len(b) - 1 :
                  ~(b[i] = " " /\ b[i + 1] = " " /\ ~InQuotes(b, i))

RECURSIVE Dotted(_)
Dotted(names) ==
    IF names = << >> THEN << >> ELSE Head(names) \o <<".">> \o Dotted(Tail(names))

GroupsOf(h) == Elems(heap, hs[h].groups)

IsSuffix(p, b) == Len(p) <= Len(b) /\ SubSeq(b, Len(b) - Len(p) + 1, Len(b)) = p

\* C22: every handler has 0 <= nOpenGroups <= len(groups) and a groupPrefix
\* that is the names of its first nOpenGroups groups, each followed by a dot;
\* the key prefix of an attribute of a record, and of an attribute attached
\* by WithAttrs, is the names of all the groups of the handler, each once, in
\* the order they were opened.
C22_GroupsOnceInOrder ==
    /\ \A h \in 1 .. Len(hs) :
          /\ hs[h].nOpenGroups \in 0 .. Len(GroupsOf(h))
          /\ hs[h].groupPrefix = Dotted(SubSeq(GroupsOf(h), 1, hs[h].nOpenGroups))
    /\ enc.op = "appendAttr" =>
          /\ enc.arg.s.prefix = Dotted(GroupsOf(enc.arg.h))
          /\ enc.arg.a = OneAttr =>
                enc.out.buf = attrSep \o Dotted(GroupsOf(enc.arg.h)) \o <<"a", "=", "1">>
    /\ (enc.op = "WithAttrs" /\ enc.out # enc.arg.h) =>
          /\ GroupsOf(enc.out) = GroupsOf(enc.arg.h)
          /\ hs[enc.out].nOpenGroups = Len(GroupsOf(enc.out))
          /\ IsSuffix(Dotted(GroupsOf(enc.out)) \o <<"a", "=", "1">>,
                      Elems(heap, hs[enc.out].preformattedAttrs))

\* An attribute rendered on a handler made by WithGroup, WithAttrs, WithGroup.
C22_Witness ==
    /\ enc.op = "appendAttr"
    /\ enc.arg.a = OneAttr
    /\ GroupsOf(enc.arg.h) = <<<<"g">>, <<"h">>>>
    /\ hs[enc.arg.h].nOpenGroups = 1
    /\ enc.out.buf = <<" ", "g", ".", "h", ".", "a", "=", "1">>

InWrite(c) == pc[c] # "idle"

\* C23: every handler of the family has the writer and the mutex of the root;
\* no two callers are inside the writer's Write at once although the writer
\* does not lock, and a caller inside it holds the mutex; so a caller about to
\* open the next file still finds the rotation condition true, a caller about
\* to write finds the handle open, and no update of the counter is lost.
C23_FamilySerialized ==
    /\ \A h \in 1 .. Len(hs) : hs[h].mu = hs[1].mu /\ hs[h].w = hs[1].w
    /\ \A c, d \in Procs : (InWrite(c) /\ InWrite(d)) => c = d
    /\ \A c \in Procs :
          /\ InWrite(c) => HoldsMu(c)
          /\ pc[c] = "open" => needRotate(Cur)
          /\ (pc[c] = "write" /\ file.k = "file") => file.h \in handles
          /\ pc[c] = "addwrite" => loc[c].rs = rSize

\* One caller is inside the Write of a Handle on the root while the other, in a
\* Handle on a derived handler, has rendered its line without the mutex and
\* waits for it.
C23_Witness ==
    /\ ~bLock
    /\ \E c, d \in Procs :
          /\ c # d
          /\ pc[c] = "write" /\ hcall[c].h = 1
          /\ hcall[d].st = "lock" /\ hcall[d].h = 2 /\ hcall[d].n > 0

IsPoolCall == enc.op \in {"handlePool", "withAttrsPool"}

\* the places of t where what is taken, and where it is given back
Gets(t, what) == {i \in 1 .. Len(t) : t[i] = Get(what)}
Puts(t, what) == {i \in 1 .. Len(t) : t[i].op = "put" /\ t[i].what = what}

\* C24: in a call of Handle or WithAttrs, the output buffer, the key-prefix
\* buffer and the list of group names are each given back once, after they
\* were taken and before the call returns, if they were taken, and not
\* otherwise; Handle takes the two buffers, and the list when there is a hook;
\* the list is given back empty; preformattedAttrs is never given to a pool.
C24_PoolsBalanced ==
    IsPoolCall =>
        LET t == enc.out
        IN  /\ t[Len(t)] = Return
            /\ \A i \in 1 .. Len(t) - 1 : t[i].op # "return"
            /\ \A what \in {"buf", "prefix", "groups"} :
                  /\ Cardinality(Gets(t, what)) <= 1
                  /\ Cardinality(Puts(t, what)) = Cardinality(Gets(t, what))
                  /\ \A i \in Gets(t, what), j \in Puts(t, what) : i < j
            /\ \A i \in Puts(t, "groups") : t[i].names = << >>
            /\ Puts(t, "preformattedAttrs") = {}
            /\ enc.op = "handlePool" =>
                  /\ Cardinality(Gets(t, "buf")) = 1
                  /\ Cardinality(Gets(t, "prefix")) = 1
                  /\ Cardinality(Gets(t, "groups"))
                        = IF hs[enc.arg.h].opts.ReplaceAttr THEN 1 ELSE 0
                  /\ \E k \in 1 .. Len(t) :
                        /\ t[k].op = "write"
                        /\ \A w \in {"buf", "prefix", "groups"} :
                              \A j \in Puts(t, w) : k < j

\* A Handle whose Write fails, on a handler with a hook and a group in its
\* pre-rendered bytes.
C24_Witness ==
    /\ enc.op = "handlePool"
    /\ enc.arg.werr
    /\ hs[enc.arg.h].opts.ReplaceAttr
    /\ hs[enc.arg.h].nOpenGroups > 0
    /\ Cardinality(Puts(enc.out, "groups")) = 1

\* the turns the loop of openNewSizeFile has made
LoopTurns == loc[1].n

\* C25: the loop of openNewSizeFile makes at most rMaxNum + 1 turns, and after
\* that many the file it has opened is below rMaxSize.
C25_LoopEnds ==
    pc[1] = "loop" =>
        /\ LoopTurns <= rMaxNum + 1
        /\ (LoopTurns = rMaxNum + 1 /\ ~loc[1].err) => rSize < rMaxSize

\* C26: no call closes standard output, and standard output stays open.
C26_StdoutNeverClosed ==
    /\ stdoutOpen
    /\ \A i \in 1 .. Len(last.ops) : last.ops[i].op # "closeStdout"

\* C27: a Write after Close returns an error, writes no byte, deletes and
\* opens no file, and leaves the writer without a file.
C27_StaysClosed ==
    (IsWrite /\ closed) =>
        /\ last.werr
        /\ last.n = 0
        /\ \A i \in 1 .. Len(last.ops) : last.ops[i].op \notin {"remove", "open"}
        /\ disk = last.pre.disk
        /\ stdoutData = last.pre.stdoutData
        /\ file = NilFile
====
